---- MODULE Spec2Model ----
(***************************************************************************)
(* The audio sonification engine of historicalfriction: the AudioManager   *)
(* singleton of src/services/audioManager.ts, its timers (the melody       *)
(* timeout chain, the narration interval), the asynchronous update() with  *)
(* its suspension at `await this.resume()`, and the platform (creation and *)
(* resumption of the AudioContext, timer delivery, speech synthesis).      *)
(*                                                                         *)
(* An update() call is two steps: Update (the synchronous part up to the   *)
(* await) and UpdateResume (the continuation: stopAll, then the strategy). *)
(* Continuations run in FIFO order.  Pan values are sin(x) * 1000.         *)
(***************************************************************************)
EXTENDS Integers, Sequences, FiniteSets, TLC

VARIABLES
    ctx,              \* this.ctx with its state: "null", "suspended", "running"
    masterGain,       \* this.masterGain # null
    created,          \* history: AudioContexts and master gains constructed so far
    resumeRequested,  \* ctx.resume() was called and its promise is unsettled
    oscillators,      \* this.oscillators: the voices, in insertion order
    melodyTimeout,    \* this.melodyTimeout: {} (null) or {the timer}
    chatterInterval,  \* this.chatterInterval: {} (null) or {the timer}
    activeUpdateId,   \* this.activeUpdateId, the epoch
    currentHeading,   \* this.currentHeading
    timers,           \* the host's armed timers, each with its callback's closure
    cancelled,        \* callbacks whose timer was cleared
    pendingUpdates,   \* update() calls suspended at `await this.resume()`
    speech,           \* utterances queued in window.speechSynthesis
    lastOp,           \* history: the operation that ran last
    live,             \* history: what the last teardown's strategy was asked to build
    race              \* history: update(MELODY, E1) directly followed by update(M2, E2)

vars == << ctx, masterGain, created, resumeRequested, oscillators, melodyTimeout,
           chatterInterval, activeUpdateId, currentHeading, timers, cancelled,
           pendingUpdates, speech, lastOp, live, race >>

---------------------------------------------------------------------------
(* Bounds of the model *)

MaxEpoch == 2
MaxPending == 2
MaxNotes == 4
MaxSpeech == 1
MaxStale == 1
MaxArticles == 22

(* Program constants *)

ScaleLength == 8
AmbientCap == 12
MurmurCap == 10
FullTurn == 360
MinChatterMs == 1200
BaseChatterMs == 4500
ChatterStepMs == 120

---------------------------------------------------------------------------
(* Inputs *)

Modes == {"AMBIENT", "CACOPHONY", "MELODY"}
Headings == {0, 90}
Radii == {1000}
InitOutcomes == {"running", "suspended", "gain_failed", "denied"}

Min(a, b) == IF a < b THEN a ELSE b
Max(a, b) == IF a > b THEN a ELSE b

\* dist in metres; editCount is optional in WikipediaArticle.
Entity(pageid, bearing, hb, dist, editCount, he) ==
    [pageid |-> pageid, bearing |-> bearing, hasBearing |-> hb, dist |-> dist,
     editCount |-> editCount, hasEditCount |-> he]

Article(i, hb) ==
    Entity(i, (i * 30) % FullTurn, hb, ((i - 1) * 500) % 2000,
           CASE i % 4 = 1 -> 9 [] i % 4 = 2 -> 99 [] i % 4 = 3 -> 999 [] OTHER -> 0,
           i % 4 # 0)

WellFormedList(n) == [i \in 1..n |-> Article(i, TRUE)]
MalformedList == [i \in 1..3 |-> Article(i, i # 2)]
ArticleLists == {WellFormedList(n) : n \in {0, 3, MaxArticles}} \cup {MalformedList}

WellFormed(articles) == \A i \in DOMAIN articles : articles[i].hasBearing

---------------------------------------------------------------------------
(* Panning *)

\* JavaScript's %: the sign of the result is the sign of the dividend.
JsRem(a, n) == IF a >= 0 THEN a % n ELSE 0 - ((0 - a) % n)

\* Math.sin(d * Math.PI / 180) * 1000 for d a multiple of 30 degrees.
SinQuadrant(d) ==
    CASE d = 0 -> 0
      [] d = 30 -> 500
      [] d = 60 -> 866
      [] d = 90 -> 1000

SinMilli(d) ==
    LET r == d % FullTurn
    IN  IF r <= 90 THEN SinQuadrant(r)
        ELSE IF r <= 180 THEN SinQuadrant(180 - r)
        ELSE IF r <= 270 THEN 0 - SinQuadrant(r - 180)
        ELSE 0 - SinQuadrant(FullTurn - r)

RelativeBearing(bearing, h) == JsRem(bearing - h + FullTurn, FullTurn)

PanTarget(bearing, h) == SinMilli(RelativeBearing(bearing, h))

\* Mutant: the heading and the bearing swapped in the subtraction.
UpdatePanningReversed(v, h) ==
    IF v.directional
    THEN [v EXCEPT !.pan = SinMilli(JsRem(h - v.bearing + FullTurn, FullTurn))]
    ELSE v

\* A voice's updatePanning(h): the drone and the noise bed have an empty one.
UpdatePanning(v, h) ==
    IF v.directional THEN [v EXCEPT !.pan = PanTarget(v.bearing, h)] ELSE v

\* Mutant: setHeading rebuilds the registry from the voices that have a panner.
RepannedDirectionalOnly(registry, heading) ==
    LET HasPanner(v) == v.directional
        kept == SelectSeq(registry, HasPanner)
    IN  [i \in DOMAIN kept |-> UpdatePanning(kept[i], heading)]

\* setHeading's fan-out over the registry.
Repanned(registry, heading) ==
    [i \in DOMAIN registry |-> UpdatePanning(registry[i], heading)]

---------------------------------------------------------------------------
(* The two scalars of an entity and the pitch of its note, in thousandths *)

RECURSIVE Characteristic(_)
Characteristic(x) == IF x < 10 THEN 0 ELSE 1 + Characteristic(x \div 10)

\* Math.log10(x) * 1000 rounded down: exact at the powers of ten and at the
\* two other arguments the inputs produce.
Log10Milli(x) ==
    CASE x = 9999 -> 3999
      [] x = 100001 -> 5000
      [] OTHER -> 1000 * Characteristic(x)

\* startAmbient: Math.max(0, Math.min(1, 1 - article.dist / radius)).
AmbientDistRatio(dist, radius) ==
    Max(0, Min(1000, 1000 - (1000 * dist) \div radius))

\* playNext: Math.max(0.1, 1 - article.dist / radius).
MelodyDistRatio(dist, radius) ==
    Max(100, 1000 - (1000 * dist) \div radius)

DistRatio(kind, dist, radius) ==
    CASE kind = "ambient" -> AmbientDistRatio(dist, radius)
      [] kind = "note" -> MelodyDistRatio(dist, radius)
      [] OTHER -> 0

\* Mutant: the activity score without Math.min(1, ...).
ActivityScoreUnclamped(article) ==
    Log10Milli((IF article.hasEditCount THEN article.editCount ELSE 0) + 1) \div 4

\* Math.min(1, Math.log10((article.editCount || 0) + 1) / 4).
ActivityScore(article) ==
    Min(1000,
        Log10Milli((IF article.hasEditCount THEN article.editCount ELSE 0) + 1)
            \div 4)

\* Mutant: the scale step taken from the entity's activity.
ScaleStepByActivity(article) == article.editCount % ScaleLength

\* scale[(article.pageid || 0) % scale.length]: the index into the scale.
ScaleStep(article) == article.pageid % ScaleLength

DirectionalVoice(kind, article, activeId, radius) ==
    [kind |-> kind, activeId |-> activeId, pageid |-> article.pageid,
     bearing |-> article.bearing, directional |-> TRUE,
     pan |-> PanTarget(article.bearing, currentHeading), ended |-> FALSE,
     dist |-> article.dist, radius |-> radius,
     editCount |-> article.editCount, hasEditCount |-> article.hasEditCount,
     distRatio |-> DistRatio(kind, article.dist, radius),
     activityScore |-> IF kind = "murmur" THEN 0 ELSE ActivityScore(article),
     step |-> IF kind = "note" THEN ScaleStep(article) ELSE 0]

LayerVoice(kind, activeId) ==
    [kind |-> kind, activeId |-> activeId, pageid |-> 0, bearing |-> 0,
     directional |-> FALSE, pan |-> 0, ended |-> FALSE,
     dist |-> 0, radius |-> 0, editCount |-> 0, hasEditCount |-> FALSE,
     distRatio |-> 0, activityScore |-> 0, step |-> 0]

---------------------------------------------------------------------------
(* The engine's mutable part, as a record the operations transform *)

\* What one pass of stopAll's loop did: stop() calls, disconnect() calls,
\* disconnect() calls that returned, exceptions caught, and voices whose
\* stop() halts the generator with no gain ramp before it.
NoTeardown ==
    [stops |-> 0, disposes |-> 0, severed |-> 0, faults |-> 0, abrupt |-> 0]

Engine ==
    [activeUpdateId |-> activeUpdateId, oscillators |-> oscillators,
     melodyTimeout |-> melodyTimeout, chatterInterval |-> chatterInterval,
     timers |-> timers, cancelled |-> cancelled, speech |-> speech,
     threw |-> FALSE, faultAt |-> 0, torn |-> NoTeardown]

\* Mutant: the strategies build without checking the context and the gain.
AlwaysReady == TRUE

Ready == ctx # "null" /\ masterGain

Timer(kind, activeId, index, articles, radius, period) ==
    [kind |-> kind, activeId |-> activeId, index |-> index,
     articles |-> articles, radius |-> radius, period |-> period]

Remember(old, new) ==
    IF Cardinality(old \cup new) <= MaxStale THEN old \cup new ELSE new

\* Mutant: stopAll forgets to clear the registry.
StopAllKeepsVoices(e) ==
    LET handles == e.melodyTimeout \cup e.chatterInterval
    IN  [e EXCEPT !.activeUpdateId = e.activeUpdateId + 1,
                  !.melodyTimeout = {},
                  !.chatterInterval = {},
                  !.timers = e.timers \ handles,
                  !.cancelled = Remember(e.cancelled, e.timers \cap handles),
                  !.speech = 0]

\* Only the ambient voice's stop() ramps its gain to zero (over 0.5 s) and
\* halts its generators after it (at 0.6 s); the drone, murmur, noise and
\* note voices call stop() on their generator at once.
RampsOnStop(kind) == kind = "ambient"

\* The loop of stopAll: `try { node.stop(); node.disconnect(); } catch (e) {}`
\* for each voice in insertion order.  Every voice's stop() catches its own
\* errors; faultAt is the voice whose disconnect() throws (0: none).
RECURSIVE TearDownFrom(_, _, _, _)
TearDownFrom(registry, i, faultAt, acc) ==
    IF i > Len(registry) THEN acc
    ELSE LET stopped == [acc EXCEPT
                           !.stops = @ + 1,
                           !.abrupt = @ + (IF RampsOnStop(registry[i].kind)
                                           THEN 0 ELSE 1),
                           !.disposes = @ + 1]
         IN  TearDownFrom(registry, i + 1, faultAt,
                          IF i = faultAt
                          THEN [stopped EXCEPT !.faults = @ + 1]
                          ELSE [stopped EXCEPT !.severed = @ + 1])

\* Mutant: the loop has no try/catch, so the first exception leaves stopAll.
StopAllAbortsOnFault(e) ==
    LET handles == e.melodyTimeout \cup e.chatterInterval
    IN  IF e.faultAt \in DOMAIN e.oscillators
        THEN [e EXCEPT !.activeUpdateId = e.activeUpdateId + 1,
                       !.torn = TearDownFrom(SubSeq(e.oscillators, 1, e.faultAt),
                                             1, e.faultAt, NoTeardown)]
        ELSE [e EXCEPT !.activeUpdateId = e.activeUpdateId + 1,
                       !.torn = TearDownFrom(e.oscillators, 1, 0, NoTeardown),
                       !.oscillators = << >>,
                       !.melodyTimeout = {},
                       !.chatterInterval = {},
                       !.timers = e.timers \ handles,
                       !.cancelled = Remember(e.cancelled, e.timers \cap handles),
                       !.speech = 0]

\* Mutant: stopAll clears the melody timeout but not the narration interval.
StopAllLeavesInterval(e) ==
    [e EXCEPT !.activeUpdateId = e.activeUpdateId + 1,
              !.torn = TearDownFrom(e.oscillators, 1, e.faultAt, NoTeardown),
              !.oscillators = << >>,
              !.melodyTimeout = {},
              !.timers = e.timers \ e.melodyTimeout,
              !.cancelled = Remember(e.cancelled, e.timers \cap e.melodyTimeout),
              !.speech = 0]

StopAllOn(e) ==
    LET handles == e.melodyTimeout \cup e.chatterInterval
    IN  [e EXCEPT !.activeUpdateId = e.activeUpdateId + 1,
                  !.torn = TearDownFrom(e.oscillators, 1, e.faultAt, NoTeardown),
                  !.oscillators = << >>,
                  !.melodyTimeout = {},
                  !.chatterInterval = {},
                  !.timers = e.timers \ handles,
                  !.cancelled = Remember(e.cancelled, e.timers \cap handles),
                  !.speech = 0]

\* Mutant: playNext without its epoch check.
PlayNextUnguarded(e, c) ==
    IF ctx = "null" THEN e
    ELSE IF c.index >= Len(c.articles) THEN e
    ELSE LET article == c.articles[c.index + 1]
             next == [c EXCEPT !.index = (c.index + 1) % Len(c.articles)]
         IN  IF ~article.hasBearing THEN [e EXCEPT !.threw = TRUE]
             ELSE [e EXCEPT
                     !.oscillators =
                         Append(e.oscillators,
                                DirectionalVoice("note", article, c.activeId, c.radius)),
                     !.melodyTimeout = {next},
                     !.timers = e.timers \cup {next}]

\* Mutant: a stale playNext makes no voice but still re-arms its timeout.
PlayNextRearmsWhenStale(e, c) ==
    IF ctx = "null" THEN e
    ELSE IF c.index >= Len(c.articles) THEN e
    ELSE LET article == c.articles[c.index + 1]
             next == [c EXCEPT !.index = (c.index + 1) % Len(c.articles)]
         IN  IF e.activeUpdateId # c.activeId
             THEN [e EXCEPT !.timers = e.timers \cup {next}]
             ELSE IF ~article.hasBearing THEN [e EXCEPT !.threw = TRUE]
             ELSE [e EXCEPT
                     !.oscillators =
                         Append(e.oscillators,
                                DirectionalVoice("note", article, c.activeId, c.radius)),
                     !.melodyTimeout = {next},
                     !.timers = e.timers \cup {next}]

\* Mutant: playNext makes its note and does not re-arm the timeout.
PlayNextOnce(e, c) ==
    IF e.activeUpdateId # c.activeId \/ ctx = "null" THEN e
    ELSE IF c.index >= Len(c.articles) THEN e
    ELSE LET article == c.articles[c.index + 1]
         IN  IF ~article.hasBearing THEN [e EXCEPT !.threw = TRUE]
             ELSE [e EXCEPT
                     !.oscillators =
                         Append(e.oscillators,
                                DirectionalVoice("note", article, c.activeId, c.radius))]

\* Mutant: playNext keeps only the note it has just made.
PlayNextDropsPrevious(e, c) ==
    IF e.activeUpdateId # c.activeId \/ ctx = "null" THEN e
    ELSE IF c.index >= Len(c.articles) THEN e
    ELSE LET article == c.articles[c.index + 1]
             next == [c EXCEPT !.index = (c.index + 1) % Len(c.articles)]
         IN  IF ~article.hasBearing THEN [e EXCEPT !.threw = TRUE]
             ELSE [e EXCEPT
                     !.oscillators =
                         << DirectionalVoice("note", article, c.activeId, c.radius) >>,
                     !.melodyTimeout = {next},
                     !.timers = e.timers \cup {next}]

PlayNextOn(e, c) ==
    IF e.activeUpdateId # c.activeId \/ ctx = "null" THEN e
    ELSE IF c.index >= Len(c.articles) THEN e
    ELSE LET article == c.articles[c.index + 1]
             next == [c EXCEPT !.index = (c.index + 1) % Len(c.articles)]
         IN  IF ~article.hasBearing THEN [e EXCEPT !.threw = TRUE]
             ELSE [e EXCEPT
                     !.oscillators =
                         Append(e.oscillators,
                                DirectionalVoice("note", article, c.activeId, c.radius)),
                     !.melodyTimeout = {next},
                     !.timers = e.timers \cup {next}]

\* Mutant: chatter without its epoch check.
ChatterUnguarded(e, c) ==
    IF Len(c.articles) = 0 THEN e
    ELSE [e EXCEPT !.speech = e.speech + 1]

ChatterOn(e, c) ==
    IF e.activeUpdateId # c.activeId THEN e
    ELSE IF Len(c.articles) = 0 THEN e
    ELSE [e EXCEPT !.speech = e.speech + 1]

FirstBad(articles) ==
    IF WellFormed(articles) THEN Len(articles) + 1
    ELSE CHOOSE i \in DOMAIN articles :
            /\ ~articles[i].hasBearing
            /\ \A j \in 1..(i - 1) : articles[j].hasBearing

\* Mutant: startAmbient without the slice(0, 12).
StartAmbientUncapped(e, articles, radius, activeId) ==
    IF ~Ready THEN e
    ELSE LET bad == FirstBad(articles)
         IN  [e EXCEPT
                !.oscillators = e.oscillators \o
                    [i \in 1..(bad - 1) |->
                        DirectionalVoice("ambient", articles[i], activeId, radius)],
                !.threw = bad <= Len(articles)]

StartAmbient(e, articles, radius, activeId) ==
    IF ~Ready THEN e
    ELSE LET shown == SubSeq(articles, 1, Min(Len(articles), AmbientCap))
             bad == FirstBad(shown)
         IN  [e EXCEPT
                !.oscillators = e.oscillators \o
                    [i \in 1..(bad - 1) |->
                        DirectionalVoice("ambient", shown[i], activeId, radius)],
                !.threw = bad <= Len(shown)]

\* Mutant: the murmur population without its cap.
MurmurDensityUncapped(articles) == Len(articles) \div 2

MurmurDensity(articles) == Min(Len(articles) \div 2, MurmurCap)

IntervalTime(articles) ==
    Max(MinChatterMs, BaseChatterMs - Len(articles) * ChatterStepMs)

StartCacophony(e, articles, radius, activeId) ==
    IF ~Ready THEN e
    ELSE LET density == MurmurDensity(articles)
             target(i) == articles[((i - 1) % Len(articles)) + 1]
             bad == IF \E i \in 1..density : ~target(i).hasBearing
                    THEN CHOOSE i \in 1..density :
                            /\ ~target(i).hasBearing
                            /\ \A j \in 1..(i - 1) : target(j).hasBearing
                    ELSE density + 1
             murmurs == [i \in 1..(bad - 1) |->
                            DirectionalVoice("murmur", target(i), activeId, radius)]
             drone == LayerVoice("drone", activeId)
             noise == LayerVoice("noise", activeId)
             c == Timer("interval", activeId, 0, articles, radius,
                        IntervalTime(articles))
         IN  IF bad <= density
             THEN [e EXCEPT !.oscillators = (e.oscillators \o << drone >>) \o murmurs,
                            !.threw = TRUE]
             ELSE LET built == [e EXCEPT !.oscillators =
                                  ((e.oscillators \o << drone >>) \o murmurs)
                                      \o << noise >>]
                      said == ChatterOn(built, c)
                  IN  [said EXCEPT !.chatterInterval = {c},
                                   !.timers = said.timers \cup {c}]

\* Mutant: startMelody without `if (!this.ctx || !this.masterGain) return`.
StartMelodyNotGuarded(e, articles, radius, activeId) ==
    PlayNextOn(e, Timer("timeout", activeId, 0, articles, radius, 0))

StartMelody(e, articles, radius, activeId) ==
    IF ~Ready THEN e
    ELSE PlayNextOn(e, Timer("timeout", activeId, 0, articles, radius, 0))

\* Mutant: update without `if (articles.length === 0) return`.
DispatchNoEmptyCheck(e, mode, articles, radius, activeId) ==
    CASE mode = "AMBIENT" -> StartAmbient(e, articles, radius, activeId)
      [] mode = "CACOPHONY" -> StartCacophony(e, articles, radius, activeId)
      [] mode = "MELODY" -> StartMelody(e, articles, radius, activeId)

Dispatch(e, mode, articles, radius, activeId) ==
    IF Len(articles) = 0 THEN e
    ELSE CASE mode = "AMBIENT" -> StartAmbient(e, articles, radius, activeId)
           [] mode = "CACOPHONY" -> StartCacophony(e, articles, radius, activeId)
           [] mode = "MELODY" -> StartMelody(e, articles, radius, activeId)

\* Mutant: update increments the epoch itself before calling stopAll.
UpdateDoubleIncrement(e, u) ==
    LET s == StopAllOn([e EXCEPT !.activeUpdateId = e.activeUpdateId + 1])
    IN  Dispatch(s, u.mode, u.articles, u.radius, s.activeUpdateId)

\* Mutant: update's teardown leaves the previous voices in the registry.
UpdateKeepsPrevious(e, u) ==
    LET s == StopAllOn(e)
    IN  Dispatch([s EXCEPT !.oscillators = e.oscillators],
                 u.mode, u.articles, u.radius, s.activeUpdateId)

UpdateOn(e, u) ==
    LET s == StopAllOn(e)
    IN  Dispatch(s, u.mode, u.articles, u.radius, s.activeUpdateId)

\* Mutant: init without `if (this.ctx) return`.
InitOnAlwaysCreates(c, outcome) ==
    CASE outcome = "running" ->
             [ctx |-> "running", masterGain |-> TRUE,
              created |-> [ctx |-> c.created.ctx + 1, gain |-> c.created.gain + 1]]
      [] outcome = "suspended" ->
             [ctx |-> "suspended", masterGain |-> TRUE,
              created |-> [ctx |-> c.created.ctx + 1, gain |-> c.created.gain + 1]]
      [] outcome = "gain_failed" ->
             [ctx |-> "running", masterGain |-> FALSE,
              created |-> [c.created EXCEPT !.ctx = @ + 1]]
      [] outcome = "denied" -> c

\* init(): the platform decides whether the context and the gain can be made.
InitOn(c, outcome) ==
    IF c.ctx # "null" THEN c
    ELSE CASE outcome = "running" ->
                  [ctx |-> "running", masterGain |-> TRUE,
                   created |-> [ctx |-> c.created.ctx + 1,
                                gain |-> c.created.gain + 1]]
           [] outcome = "suspended" ->
                  [ctx |-> "suspended", masterGain |-> TRUE,
                   created |-> [ctx |-> c.created.ctx + 1,
                                gain |-> c.created.gain + 1]]
           [] outcome = "gain_failed" ->
                  [ctx |-> "running", masterGain |-> FALSE,
                   created |-> [c.created EXCEPT !.ctx = @ + 1]]
           [] outcome = "denied" -> c

Context == [ctx |-> ctx, masterGain |-> masterGain, created |-> created]

\* Mutant: resume neither calls nor awaits ctx.resume().
ResumeWithoutAwait(c, outcome) ==
    LET d == InitOn(c, outcome)
    IN  [ctx |-> d.ctx, masterGain |-> d.masterGain, created |-> d.created,
         awaits |-> FALSE]

\* resume(): init() when there is no context, then `await this.ctx.resume()`
\* when the context is suspended.  awaits: the call waits for the platform.
ResumeOn(c, outcome) ==
    LET d == InitOn(c, outcome)
    IN  [ctx |-> d.ctx, masterGain |-> d.masterGain, created |-> d.created,
         awaits |-> d.ctx = "suspended"]

---------------------------------------------------------------------------
(* History records *)

NoGeneration ==
    [mode |-> "NONE", articles |-> << >>, ready |-> FALSE, threw |-> FALSE,
     size |-> 0]

\* prev: for a completed update, the generation it replaced.
\* torn: for stopAll and a completed update, what its teardown loop did.
Op(name, kind) ==
    [op |-> name, kind |-> kind, prev |-> NoGeneration, torn |-> NoTeardown]

NoRace == [on |-> FALSE, mode |-> "NONE", articles |-> << >>]

Store(e) ==
    /\ activeUpdateId' = e.activeUpdateId
    /\ oscillators' = e.oscillators
    /\ melodyTimeout' = e.melodyTimeout
    /\ chatterInterval' = e.chatterInterval
    /\ timers' = e.timers
    /\ cancelled' = e.cancelled
    /\ speech' = e.speech

\* No continuation is waiting in the microtask queue: a new task may start.
TaskBoundary == \A i \in DOMAIN pendingUpdates : pendingUpdates[i].wait # "micro"

Budget == activeUpdateId + Len(pendingUpdates) < MaxEpoch

---------------------------------------------------------------------------
Init ==
    /\ ctx = "null"
    /\ masterGain = FALSE
    /\ created = [ctx |-> 0, gain |-> 0]
    /\ resumeRequested = FALSE
    /\ oscillators = << >>
    /\ melodyTimeout = {}
    /\ chatterInterval = {}
    /\ activeUpdateId = 0
    /\ currentHeading = 0
    /\ timers = {}
    /\ cancelled = {}
    /\ pendingUpdates = << >>
    /\ speech = 0
    /\ lastOp = Op("other", "")
    /\ live = NoGeneration
    /\ race = NoRace

\* init() and resume() are called by the application from toggleAudio, a click
\* handler: a task of its own.
AppInit(outcome) ==
    /\ TaskBoundary
    /\ LET c == InitOn(Context, outcome)
       IN  ctx' = c.ctx /\ masterGain' = c.masterGain /\ created' = c.created
    /\ lastOp' = Op("other", "")
    /\ UNCHANGED << resumeRequested, oscillators, melodyTimeout, chatterInterval,
                    activeUpdateId, currentHeading, timers, cancelled,
                    pendingUpdates, speech, live, race >>

\* observed: whether the history records the call as a resume() (with the
\* platform's answer to its init()) or as an unnamed platform step.
AppResumeAs(outcome, observed) ==
    \* init() returns at once when a context exists: its outcome is not drawn.
    /\ ctx # "null" => outcome = "denied"
    /\ TaskBoundary
    /\ LET c == ResumeOn(Context, outcome)
       IN  /\ ctx' = c.ctx
           /\ masterGain' = c.masterGain
           /\ created' = c.created
           /\ resumeRequested' = (resumeRequested \/ c.awaits)
    /\ lastOp' = IF observed THEN Op("resume", outcome) ELSE Op("other", "")
    /\ UNCHANGED << oscillators, melodyTimeout, chatterInterval, activeUpdateId,
                    currentHeading, timers, cancelled, pendingUpdates, speech,
                    live, race >>

AppResume(outcome) == AppResumeAs(outcome, FALSE)

SetHeading(heading) ==
    /\ currentHeading' = heading
    /\ oscillators' = Repanned(oscillators, heading)
    /\ lastOp' = Op("setHeading", "")
    /\ UNCHANGED << ctx, masterGain, created, resumeRequested, melodyTimeout, chatterInterval,
                    activeUpdateId, timers, cancelled, pendingUpdates, speech,
                    live, race >>

\* faultAt: the voice whose disconnect() the platform makes throw (0: none).
StopAllWith(faultAt) ==
    /\ Budget
    /\ faultAt \in 0..Len(oscillators)
    /\ LET e == StopAllOn([Engine EXCEPT !.faultAt = faultAt])
       IN  /\ Store(e)
           /\ lastOp' = [Op("stopAll", "") EXCEPT !.torn = e.torn]
    /\ live' = NoGeneration
    /\ race' = NoRace
    /\ UNCHANGED << ctx, masterGain, created, resumeRequested, currentHeading,
                    pendingUpdates >>

StopAll == StopAllWith(0)

Update(mode, articles, radius, heading, o1, o2) ==
    /\ Budget
    /\ Len(pendingUpdates) < MaxPending
    \* o1: init() at line 83; o2: the init() resume() makes when the first
    \* left no context.  An outcome is drawn only for an init() that runs.
    /\ ctx # "null" => o1 = "denied"
    /\ o1 # "denied" => o2 = "denied"
    /\ currentHeading' = heading
    /\ LET c == ResumeOn(InitOn(Context, o1), o2)
       IN  /\ ctx' = c.ctx
           /\ masterGain' = c.masterGain
           /\ created' = c.created
           /\ resumeRequested' = (resumeRequested \/ c.awaits)
           /\ pendingUpdates' = Append(pendingUpdates,
                 [mode |-> mode, articles |-> articles, radius |-> radius,
                  wait |-> IF c.awaits THEN "resume" ELSE "micro"])
    /\ race' = IF /\ pendingUpdates # << >>
                  /\ pendingUpdates[Len(pendingUpdates)].mode = "MELODY"
                  /\ Len(pendingUpdates[Len(pendingUpdates)].articles) > 0
               THEN [on |-> TRUE, mode |-> mode, articles |-> articles]
               ELSE NoRace
    /\ lastOp' = Op("other", "")
    /\ UNCHANGED << oscillators, melodyTimeout, chatterInterval, activeUpdateId,
                    timers, cancelled, speech, live >>

UpdateResumeWith(faultAt) ==
    /\ pendingUpdates # << >>
    /\ Head(pendingUpdates).wait = "micro"
    /\ faultAt \in 0..Len(oscillators)
    /\ LET u == Head(pendingUpdates)
           e == UpdateOn([Engine EXCEPT !.faultAt = faultAt], u)
       IN  /\ Store(e)
           /\ live' = [mode |-> u.mode, articles |-> u.articles,
                       ready |-> Ready, threw |-> e.threw,
                       size |-> Len(e.oscillators)]
           /\ lastOp' = [Op("updateDone", "") EXCEPT !.prev = live,
                                                     !.torn = e.torn]
    /\ pendingUpdates' = Tail(pendingUpdates)
    /\ UNCHANGED << ctx, masterGain, created, resumeRequested, currentHeading, race >>

UpdateResume == UpdateResumeWith(0)

CtxResumed ==
    /\ ctx = "suspended"
    /\ resumeRequested
    /\ TaskBoundary
    /\ ctx' = "running"
    /\ resumeRequested' = FALSE
    /\ pendingUpdates' = [i \in DOMAIN pendingUpdates |->
                            [pendingUpdates[i] EXCEPT !.wait = "micro"]]
    /\ lastOp' = Op("other", "")
    /\ UNCHANGED << masterGain, created, oscillators, melodyTimeout, chatterInterval,
                    activeUpdateId, currentHeading, timers, cancelled, speech,
                    live, race >>

MelodyStep(c) ==
    /\ c \in timers
    /\ c.kind = "timeout"
    /\ TaskBoundary
    /\ Len(oscillators) < MaxNotes
    /\ Store(PlayNextOn([Engine EXCEPT !.timers = timers \ {c}], c))
    /\ lastOp' = Op("melodyStep", "")
    /\ UNCHANGED << ctx, masterGain, created, resumeRequested, currentHeading,
                    pendingUpdates, live, race >>

ChatterTick(c) ==
    /\ c \in timers
    /\ c.kind = "interval"
    /\ TaskBoundary
    /\ speech < MaxSpeech
    /\ Store(ChatterOn(Engine, c))
    /\ lastOp' = Op("chatterTick", "")
    /\ UNCHANGED << ctx, masterGain, created, resumeRequested, currentHeading,
                    pendingUpdates, live, race >>

\* A callback whose timer was cleared is run all the same (spec section 8:
\* "even if a pending timer fires"); what it does is up to its own guard.
StaleCallback(c) ==
    /\ c \in cancelled
    /\ TaskBoundary
    /\ LET e == [Engine EXCEPT !.cancelled = cancelled \ {c}]
       IN  Store(IF c.kind = "timeout" THEN PlayNextOn(e, c) ELSE ChatterOn(e, c))
    /\ lastOp' = Op("staleCallback", c.kind)
    /\ UNCHANGED << ctx, masterGain, created, resumeRequested, currentHeading,
                    pendingUpdates, live, race >>

SpeechEnd ==
    /\ speech > 0
    /\ TaskBoundary
    /\ speech' = speech - 1
    /\ lastOp' = Op("other", "")
    /\ UNCHANGED << ctx, masterGain, created, resumeRequested, oscillators, melodyTimeout,
                    chatterInterval, activeUpdateId, currentHeading, timers,
                    cancelled, pendingUpdates, live, race >>

Next ==
    \/ \E o \in InitOutcomes : AppInit(o)
    \/ \E o \in InitOutcomes : AppResume(o)
    \/ \E h \in Headings : SetHeading(h)
    \/ StopAll
    \/ \E m \in Modes, a \in ArticleLists, r \in Radii, h \in Headings,
          o1 \in InitOutcomes, o2 \in InitOutcomes : Update(m, a, r, h, o1, o2)
    \/ UpdateResume
    \/ CtxResumed
    \/ \E c \in timers : MelodyStep(c)
    \/ \E c \in timers : ChatterTick(c)
    \/ \E c \in cancelled : StaleCallback(c)
    \/ SpeechEnd

Spec == Init /\ [][Next]_vars

\* A continuation waiting in the microtask queue is always run; whether and
\* when the platform resumes a suspended context is up to the platform.
SpecFair == Spec /\ WF_vars(UpdateResume)

---------------------------------------------------------------------------
(* Voice lifetimes: teardown faults and notes that have finished sounding *)

\* `osc.stop(currentTime + noteDuration + 0.2)` has taken effect: the note's
\* generator has halted by itself.  No handler is attached to that event.
NoteEnded(i) ==
    /\ i \in DOMAIN oscillators
    /\ oscillators[i].kind = "note"
    /\ ~oscillators[i].ended
    /\ TaskBoundary
    /\ oscillators' = [oscillators EXCEPT ![i].ended = TRUE]
    /\ lastOp' = Op("noteEnded", "")
    /\ UNCHANGED << ctx, masterGain, created, resumeRequested, melodyTimeout,
                    chatterInterval, activeUpdateId, currentHeading, timers,
                    cancelled, pendingUpdates, speech, live, race >>

VoiceLists == {WellFormedList(n) : n \in {0, 3}}

NextVoices ==
    \/ \E o \in InitOutcomes : AppInit(o)
    \/ \E o \in InitOutcomes : AppResumeAs(o, TRUE)
    \/ \E h \in Headings : SetHeading(h)
    \/ \E k \in 0..MaxNotes : StopAllWith(k)
    \/ \E m \in Modes, a \in VoiceLists, r \in Radii, h \in Headings,
          o1 \in InitOutcomes, o2 \in InitOutcomes : Update(m, a, r, h, o1, o2)
    \/ \E k \in 0..MaxNotes : UpdateResumeWith(k)
    \/ CtxResumed
    \/ \E c \in timers : MelodyStep(c)
    \/ \E c \in timers : ChatterTick(c)
    \/ \E c \in cancelled : StaleCallback(c)
    \/ SpeechEnd
    \/ \E i \in DOMAIN oscillators : NoteEnded(i)

SpecVoices == Init /\ [][NextVoices]_vars

\* The melody chain alone: MELODY updates, their steps and the steps of
\* cleared timers.  The host runs an armed timeout's callback and a queued
\* continuation sooner or later.
MelodyLists == {WellFormedList(n) : n \in {0, 3}}

NextMelody ==
    \/ \E o \in InitOutcomes : AppInit(o)
    \/ \E o \in InitOutcomes : AppResume(o)
    \/ \E h \in Headings : SetHeading(h)
    \/ StopAll
    \/ \E a \in MelodyLists, r \in Radii, h \in Headings,
          o1 \in InitOutcomes, o2 \in InitOutcomes :
            Update("MELODY", a, r, h, o1, o2)
    \/ UpdateResume
    \/ CtxResumed
    \/ \E c \in timers : MelodyStep(c)
    \/ \E c \in cancelled : StaleCallback(c)

SpecMelodyFair ==
    /\ Init
    /\ [][NextMelody]_vars
    /\ WF_vars(\E c \in timers : MelodyStep(c))
    /\ WF_vars(UpdateResume)

---------------------------------------------------------------------------
(* The mappings from an entity to its sound: AMBIENT and MELODY updates over
   entities of varied distance, activity and identity, at two radii *)

MappingRadii == {500, 1000}

SurveyList ==
    << Entity(1, 0, TRUE, 0, 0, FALSE),
       Entity(9, 30, TRUE, 500, 9, TRUE),
       Entity(1, 60, TRUE, 1000, 9999, TRUE),
       Entity(17, 90, TRUE, 1500, 100000, TRUE),
       Entity(8, 120, TRUE, 250, 0, TRUE),
       Entity(12, 150, TRUE, 750, 9998, TRUE),
       Entity(3, 180, TRUE, 125, 99, TRUE),
       Entity(5, 210, TRUE, 1000, 999, TRUE) >>

Reversed(list) == [i \in DOMAIN list |-> list[Len(list) + 1 - i]]

MappingLists == {SurveyList, Reversed(SurveyList)}

NextMappings ==
    \/ \E o \in InitOutcomes : AppInit(o)
    \/ \E h \in Headings : SetHeading(h)
    \/ StopAll
    \/ \E m \in {"AMBIENT", "MELODY"}, a \in MappingLists, r \in MappingRadii,
          o1 \in InitOutcomes, o2 \in InitOutcomes : Update(m, a, r, 0, o1, o2)
    \/ UpdateResume
    \/ CtxResumed
    \/ \E c \in timers : MelodyStep(c)
    \/ \E c \in cancelled : StaleCallback(c)

SpecMappings == Init /\ [][NextMappings]_vars

---------------------------------------------------------------------------
(* The narration of CACOPHONY: updates over lists short and long enough to
   sit on both sides of the floor of the period, and over a pair whose first
   entity, the one the single murmur follows, has no bearing *)

\* The greatest entity count whose period is still above the floor.
LastAboveFloor == (BaseChatterMs - MinChatterMs - 1) \div ChatterStepMs

UnpannablePair == [i \in 1..2 |-> Article(i, i # 1)]

NarrationLists ==
    {WellFormedList(n) :
        n \in {0, 1, LastAboveFloor, LastAboveFloor + 1, LastAboveFloor + 3}}
        \cup {UnpannablePair}

NextNarration ==
    \/ \E o \in InitOutcomes : AppInit(o)
    \/ StopAll
    \/ \E a \in NarrationLists, r \in Radii,
          o1 \in InitOutcomes, o2 \in InitOutcomes :
            Update("CACOPHONY", a, r, 0, o1, o2)
    \/ UpdateResume
    \/ CtxResumed
    \/ \E c \in timers : ChatterTick(c)
    \/ \E c \in cancelled : StaleCallback(c)
    \/ SpeechEnd

SpecNarration == Init /\ [][NextNarration]_vars

---------------------------------------------------------------------------
(* The application: the engine is driven by the audio effect of App alone,
   which runs with the application state of the render it belongs to *)

\* The part of AppState the effect reads.  The toggle, the mode buttons and
\* the article fetch set it, in any order.
AppStates ==
    [isAudioEnabled : BOOLEAN, mode : Modes, articles : VoiceLists,
     radius : Radii, heading : Headings]

\* o1, o2: the outcomes of the init() calls of update(), as in Update.
AudioEffect(state, o1, o2) ==
    IF state.isAudioEnabled /\ Len(state.articles) > 0
    THEN Update(state.mode, state.articles, state.radius, state.heading, o1, o2)
    ELSE IF ~state.isAudioEnabled
    THEN /\ o1 = "denied" /\ o2 = "denied"
         /\ StopAll
    ELSE \* enabled, no article: neither branch is taken
         /\ o1 = "denied" /\ o2 = "denied"
         /\ lastOp' = [Op("audioEffect", "idle") EXCEPT !.prev = live]
         /\ UNCHANGED << ctx, masterGain, created, resumeRequested, oscillators,
                         melodyTimeout, chatterInterval, activeUpdateId,
                         currentHeading, timers, cancelled, pendingUpdates,
                         speech, live, race >>

NextApp ==
    \/ \E o \in InitOutcomes : AppInit(o)
    \/ \E o \in InitOutcomes : AppResume(o)
    \/ \E h \in Headings : SetHeading(h)
    \/ \E state \in AppStates, o1 \in InitOutcomes, o2 \in InitOutcomes :
          AudioEffect(state, o1, o2)
    \/ UpdateResume
    \/ CtxResumed
    \/ \E c \in timers : MelodyStep(c)
    \/ \E c \in timers : ChatterTick(c)
    \/ \E c \in cancelled : StaleCallback(c)
    \/ SpeechEnd

SpecApp == Init /\ [][NextApp]_vars

---------------------------------------------------------------------------
(* Claims *)

KindCount(kind) ==
    Cardinality({i \in DOMAIN oscillators : oscillators[i].kind = kind})

\* C1: right after stopAll() the registry is empty, and a melody step or a
\* narration tick armed before a stopAll that fires after it adds no voice
\* and speaks nothing.
StopAllSilencesStaleCallbacks ==
    /\ [](lastOp.op = "stopAll" => oscillators = << >>)
    /\ [][lastOp'.op = "staleCallback" =>
            /\ oscillators' = oscillators
            /\ speech' = speech
            /\ timers' = timers]_vars

StaleCallbackFiredAfterStopAll ==
    /\ lastOp.op = "staleCallback"
    /\ live = NoGeneration
    /\ activeUpdateId >= 2

\* C2: every voice in the registry was created under the current epoch.
OneGenerationLive ==
    \A i \in DOMAIN oscillators : oscillators[i].activeId = activeUpdateId

SecondGenerationLive ==
    /\ oscillators # << >>
    /\ activeUpdateId >= 2
    /\ cancelled # {}

\* C3: after update(MELODY, E1) directly followed by update(M2, E2), once both
\* have completed the registry holds only voices of mode M2 for entities of
\* E2, created under the current epoch, also after the first call's timer fires.
KindsOf(mode) ==
    CASE mode = "AMBIENT" -> {"ambient"}
      [] mode = "CACOPHONY" -> {"drone", "murmur", "noise"}
      [] mode = "MELODY" -> {"note"}
      [] OTHER -> {}

SecondUpdateWins ==
    (race.on /\ pendingUpdates = << >>) =>
        \A i \in DOMAIN oscillators :
            LET v == oscillators[i]
            IN  /\ v.kind \in KindsOf(race.mode)
                /\ v.activeId = activeUpdateId
                /\ v.kind \notin {"drone", "noise"} =>
                      \E j \in DOMAIN race.articles :
                          race.articles[j].pageid = v.pageid

FirstMelodyTimerFiredAfterSecond ==
    /\ race.on
    /\ race.mode = "AMBIENT"
    /\ pendingUpdates = << >>
    /\ oscillators # << >>
    /\ lastOp = Op("staleCallback", "timeout")

\* C4: the epoch never decreases: stopAll() and a completed update() raise it
\* by exactly 1, every other operation leaves it unchanged.
EpochRaisedOnlyByTeardown ==
    [][activeUpdateId' =
          IF lastOp'.op \in {"stopAll", "updateDone"}
          THEN activeUpdateId + 1
          ELSE activeUpdateId]_vars

UpdateAfterTeardown ==
    /\ lastOp.op = "updateDone"
    /\ activeUpdateId = 2

\* C5: setHeading(h) neither creates nor destroys voices and changes neither
\* the epoch nor the timers: only the heading and the pan targets change.
SetHeadingKeepsVoices ==
    [][lastOp'.op = "setHeading" =>
          /\ Len(oscillators') = Len(oscillators)
          /\ \A i \in DOMAIN oscillators :
                i \in DOMAIN oscillators' =>
                    oscillators'[i] =
                        [oscillators[i] EXCEPT !.pan = oscillators'[i].pan]
          /\ activeUpdateId' = activeUpdateId
          /\ timers' = timers
          /\ melodyTimeout' = melodyTimeout
          /\ chatterInterval' = chatterInterval]_vars

HeadingChangedWhilePlaying ==
    /\ lastOp.op = "setHeading"
    /\ currentHeading = 90
    /\ timers # {}
    /\ \E i \in DOMAIN oscillators : ~oscillators[i].directional
    /\ \E i \in DOMAIN oscillators : oscillators[i].directional

\* C6: after setHeading(h) every ambient, murmur and note voice has pan target
\* sin((bearing - h + 360) mod 360), and setHeading leaves the drone and the
\* noise bed as they were.
SetHeadingRepansDirectional ==
    /\ [](lastOp.op = "setHeading" =>
            \A i \in DOMAIN oscillators :
                oscillators[i].kind \in {"ambient", "murmur", "note"} =>
                    oscillators[i].pan =
                        SinMilli((oscillators[i].bearing - currentHeading + 360) % 360))
    /\ [][lastOp'.op = "setHeading" =>
            \A i \in DOMAIN oscillators :
                (oscillators[i].kind \in {"drone", "noise"}
                    /\ i \in DOMAIN oscillators') =>
                        oscillators'[i] = oscillators[i]]_vars

MurmursRepanned ==
    /\ lastOp.op = "setHeading"
    /\ currentHeading = 90
    /\ KindCount("murmur") >= 1
    /\ KindCount("drone") = 1
    /\ \E i \in DOMAIN oscillators :
          /\ oscillators[i].kind = "murmur"
          /\ oscillators[i].pan # SinMilli(oscillators[i].bearing)

\* C7: a completed update with an empty entity list leaves no voice, no timer
\* and no narration, and raises no error.
EmptyUpdateIsSilent ==
    (lastOp.op = "updateDone" /\ live.articles = << >>) =>
        /\ oscillators = << >>
        /\ timers = {}
        /\ melodyTimeout = {}
        /\ chatterInterval = {}
        /\ speech = 0
        /\ ~live.threw

EmptyUpdateToreDown ==
    /\ lastOp.op = "updateDone"
    /\ live.articles = << >>
    /\ activeUpdateId >= 2
    /\ cancelled # {}

\* The population size the spec gives for a mode and an entity count.
SizeByModeAndCount(mode, n) ==
    IF n = 0 THEN 0
    ELSE CASE mode = "AMBIENT" -> Min(n, 12)
           [] mode = "CACOPHONY" -> Min(n \div 2, 10) + 2
           [] mode = "MELODY" -> 1

AmbientPopulation ==
    (live.mode = "AMBIENT" /\ live.ready /\ WellFormed(live.articles)) =>
        /\ Len(oscillators) = Min(Len(live.articles), 12)
        /\ \A i \in DOMAIN oscillators :
              /\ oscillators[i].kind = "ambient"
              /\ i <= Len(live.articles)
              /\ oscillators[i].pageid = live.articles[i].pageid

AmbientCapReached ==
    /\ live.mode = "AMBIENT"
    /\ live.ready
    /\ Len(live.articles) > 12
    /\ Len(oscillators) = 12
    /\ lastOp.op = "setHeading"

\* C10: from a completed update(CACOPHONY, ...) with n >= 1 well-formed
\* entities and a ready context until the next teardown, the registry holds
\* min(floor(n/2), 10) murmurs, one drone and one noise bed and nothing else;
\* after a stopAll none of them is left.
CacophonyPopulation ==
    /\ (/\ live.mode = "CACOPHONY"
        /\ live.ready
        /\ WellFormed(live.articles)
        /\ Len(live.articles) >= 1) =>
            /\ KindCount("murmur") = Min(Len(live.articles) \div 2, 10)
            /\ KindCount("drone") = 1
            /\ KindCount("noise") = 1
            /\ Len(oscillators) = KindCount("murmur") + 2
    /\ live = NoGeneration =>
            KindCount("murmur") + KindCount("drone") + KindCount("noise") = 0

MurmurCapReached ==
    /\ live.mode = "CACOPHONY"
    /\ live.ready
    /\ Len(live.articles) > 20
    /\ KindCount("murmur") = 10
    /\ lastOp.op = "chatterTick"

\* C11: stopAll (also the one update() makes) calls stop() and then
\* disconnect() on every voice of the registry; a disconnect() that throws
\* for one voice is caught and the loop goes on: the other voices are torn
\* down, the registry is emptied, the timers are cancelled and the narration
\* queue is flushed.
TeardownSurvivesFaults ==
    [][lastOp'.op \in {"stopAll", "updateDone"} =>
          /\ lastOp'.torn.stops = Len(oscillators)
          /\ lastOp'.torn.disposes = Len(oscillators)
          /\ lastOp'.torn.severed + lastOp'.torn.faults = Len(oscillators)
          /\ activeUpdateId' = activeUpdateId + 1
          /\ \A i \in DOMAIN oscillators' :
                oscillators'[i].activeId = activeUpdateId'
          /\ \A c \in timers' : c.activeId = activeUpdateId'
          /\ timers \subseteq cancelled'
          /\ speech' <= 1
          /\ speech' = 1 => live'.mode = "CACOPHONY"
          /\ lastOp'.op = "stopAll" =>
                oscillators' = << >> /\ timers' = {} /\ speech' = 0]_vars

FaultCaughtDuringStopAll ==
    /\ lastOp.op = "stopAll"
    /\ lastOp.torn.faults = 1
    /\ lastOp.torn.stops >= 3
    /\ \E c \in cancelled : c.activeId + 1 = activeUpdateId

\* C12: right after stopAll no timed callback is pending: no timer is armed,
\* the melody timeout handle and the narration interval handle are null and
\* no utterance is queued.
NoCallbackPendingAfterStopAll ==
    lastOp.op = "stopAll" =>
        /\ timers = {}
        /\ melodyTimeout = {}
        /\ chatterInterval = {}
        /\ speech = 0

IntervalCancelledByStopAll ==
    /\ lastOp.op = "stopAll"
    /\ lastOp.torn.stops > 0
    /\ \E c \in cancelled : c.kind = "interval" /\ c.activeId + 1 = activeUpdateId

\* C13: an update() call always settles, also when the platform refuses to
\* create or to resume the context: once a call is suspended at its await,
\* an update eventually completes.
UpdateAlwaysSettles ==
    (pendingUpdates # << >>) ~> (lastOp.op = "updateDone")

Silent ==
    /\ oscillators = << >>
    /\ timers = {}
    /\ melodyTimeout = {}
    /\ chatterInterval = {}
    /\ speech = 0

\* C14: a completed update whose entities include one without a bearing did
\* not throw and built the voice of every entity, as many as the mode and
\* the entity count give.
MissingBearingTolerated ==
    (lastOp.op = "updateDone" /\ live.ready) =>
        /\ ~live.threw
        /\ Len(oscillators) = SizeByModeAndCount(live.mode, Len(live.articles))

\* C15: while the context (or the master gain) is missing the engine is
\* inert: no voice, no armed timer, no handle, no narration, whatever
\* updates have run; the first update that completes after a later init()
\* has succeeded builds the voices of its mode and entity count.
InertUntilInitSucceeds ==
    /\ (ctx = "null" \/ ~masterGain) => Silent
    /\ (/\ lastOp.op = "updateDone"
        /\ lastOp.prev.mode \in Modes
        /\ ~lastOp.prev.ready
        /\ ctx # "null" /\ masterGain
        /\ WellFormed(live.articles)) =>
            Len(oscillators) = SizeByModeAndCount(live.mode, Len(live.articles))

BuiltAfterFailedInit ==
    /\ lastOp.op = "updateDone"
    /\ lastOp.prev.mode \in Modes
    /\ Len(lastOp.prev.articles) > 0
    /\ ~lastOp.prev.ready
    /\ lastOp.prev.size = 0
    /\ ctx = "running" /\ masterGain
    /\ Len(oscillators) > 0

\* C16: init() is idempotent: at most one context and one master gain are
\* ever constructed, and once a context exists no step (a direct init(), or
\* the init() inside resume() and update()) constructs another or replaces
\* the master gain.
InitIsIdempotent ==
    /\ [](created.ctx <= 1 /\ created.gain <= 1)
    /\ [][ctx # "null" =>
            /\ created' = created
            /\ masterGain' = masterGain
            /\ ctx' # "null"]_vars

InitCalledAgainBySecondUpdate ==
    /\ created.ctx = 1
    /\ created.gain = 1
    /\ lastOp.op = "updateDone"
    /\ lastOp.prev.ready
    /\ live.ready

\* READY: the context and the master gain exist (the context may still be
\* waiting for the platform to resume it).
Phase ==
    IF ctx = "null" \/ ~masterGain THEN "UNINITIALIZED"
    ELSE IF oscillators = << >> /\ timers = {} THEN "READY"
    ELSE "PLAYING"

SameVoice(v, w) ==
    [v EXCEPT !.pan = 0, !.ended = FALSE] = [w EXCEPT !.pan = 0, !.ended = FALSE]

\* C18: only a teardown (stopAll, also the one update() makes) removes
\* registry entries: every other step leaves each voice in its place (its
\* pan may change) and at most appends.
RegistryShrinksOnlyByStopAll ==
    [][lastOp'.op \notin {"stopAll", "updateDone"} =>
          /\ Len(oscillators') >= Len(oscillators)
          /\ \A i \in DOMAIN oscillators :
                SameVoice(oscillators'[i], oscillators[i])]_vars

MelodyStepAppended ==
    /\ lastOp.op = "melodyStep"
    /\ KindCount("note") >= 2

\* C19: a note whose finite sound has completed is no longer in the
\* registry, so the registry of a MELODY generation holds only notes that
\* are still sounding.
FinishedNotesLeaveRegistry ==
    \A i \in DOMAIN oscillators : ~oscillators[i].ended

\* C20: every voice a teardown stops gets a release: its stop() ramps the
\* gain to zero before the generator is halted.
EveryStopReleases ==
    lastOp.op \in {"stopAll", "updateDone"} => lastOp.torn.abrupt = 0

\* C24: a melody step or narration tick whose captured epoch is not the
\* current one changes nothing, and in every state at most one deferred
\* driver is armed (a melody timeout or a narration interval, never both),
\* it captured the current epoch and it is the one the handle refers to.
OneCurrentDriver ==
    /\ [](/\ Cardinality(timers) <= 1
          /\ \A c \in timers : c.activeId = activeUpdateId
          /\ timers \subseteq melodyTimeout \cup chatterInterval
          /\ ~(melodyTimeout \cap timers # {} /\ chatterInterval \cap timers # {}))
    /\ [][\A c \in cancelled :
            (c \notin cancelled' /\ c.activeId # activeUpdateId) =>
                /\ oscillators' = oscillators
                /\ timers' \subseteq timers
                /\ speech' <= speech]_vars

StaleStepBesideCurrentDriver ==
    /\ lastOp.op = "staleCallback"
    /\ Cardinality(timers) = 1
    /\ \A c \in timers : c.activeId = activeUpdateId

\* C25: an update() that completes right after a stopAll() (so it was called
\* before it and was suspended at its await when stopAll ran) leaves the
\* registry empty and arms no timer.
StopAllOutlastsPendingUpdate ==
    [][(lastOp.op = "stopAll" /\ lastOp'.op = "updateDone") =>
          oscillators' = << >> /\ timers' = {}]_vars

\* C26: in every state each directional voice of the registry has the pan
\* target of its bearing and the stored heading.
PanFollowsStoredHeading ==
    \A i \in DOMAIN oscillators :
        oscillators[i].directional =>
            oscillators[i].pan = PanTarget(oscillators[i].bearing, currentHeading)

\* C27: in every state the context and the master gain are both present or
\* both absent.
ContextAndGainTogether ==
    (ctx # "null") <=> masterGain

\* C23: a resume() made with no context calls init() (the context is there
\* afterwards when the platform grants it, running or suspended with the
\* platform's resume requested); a resume() made with a running context
\* changes nothing; and the await of resume() inside update() returns only
\* with the context running, or with no context (creation denied), or, for a
\* call that found no context, with the suspended context a later call
\* created and is still waiting on.
ResumeEnsuresRunning ==
    /\ [][lastOp'.op = "resume" =>
            /\ (ctx = "null" /\ lastOp'.kind \in {"running", "suspended"}) =>
                  /\ ctx' = lastOp'.kind
                  /\ masterGain'
                  /\ created'.ctx = created.ctx + 1
            /\ ctx' = "suspended" => resumeRequested'
            /\ ctx = "running" =>
                  UNCHANGED << ctx, masterGain, created, resumeRequested,
                               oscillators, melodyTimeout, chatterInterval,
                               activeUpdateId, currentHeading, timers,
                               cancelled, pendingUpdates, speech >>]_vars
    /\ [][lastOp'.op = "updateDone" =>
            \/ ctx \in {"running", "null"}
            \/ /\ ctx = "suspended"
               /\ resumeRequested
               /\ \E i \in 2..Len(pendingUpdates) :
                     pendingUpdates[i].wait = "resume"]_vars

ResumeCreatedSuspendedContext ==
    /\ lastOp.op = "resume"
    /\ lastOp.kind = "suspended"
    /\ ctx = "suspended"
    /\ resumeRequested

\* C28: every melody step that fires adds exactly one voice, and the k-th
\* step of a generation (k = 0 for the one startMelody makes) makes it for
\* entity k mod n.
MelodyCursorAdvances ==
    /\ [][lastOp'.op = "melodyStep" =>
            /\ Len(oscillators') = Len(oscillators) + 1
            /\ oscillators'[Len(oscillators')].pageid =
                  live.articles[(Len(oscillators) % Len(live.articles)) + 1].pageid]_vars
    /\ []((/\ lastOp.op = "updateDone"
           /\ live.mode = "MELODY"
           /\ live.ready
           /\ Len(live.articles) >= 1) =>
              /\ Len(oscillators) = 1
              /\ oscillators[1].pageid = live.articles[1].pageid)

MelodyLive ==
    /\ live.mode = "MELODY"
    /\ live.ready
    /\ Len(live.articles) >= 1
    /\ WellFormed(live.articles)

\* C29: while a MELODY generation of well-formed entities is current,
\* exactly one timeout is armed, for the current epoch and the next entity
\* of the cursor; and with timers and continuations run fairly, note
\* follows note (up to the bound on notes) unless the generation ends.
MelodyChainNeverDies ==
    /\ [](MelodyLive =>
            /\ Cardinality(timers) = 1
            /\ timers = melodyTimeout
            /\ \A c \in timers :
                  /\ c.kind = "timeout"
                  /\ c.activeId = activeUpdateId
                  /\ c.articles = live.articles
                  /\ c.index = KindCount("note") % Len(live.articles))
    /\ []<>(~MelodyLive \/ KindCount("note") >= MaxNotes)

MelodyChainWrapped ==
    /\ MelodyLive
    /\ lastOp.op = "melodyStep"
    /\ KindCount("note") > Len(live.articles)
    /\ Cardinality(timers) = 1

Sounding(i) == oscillators[i].kind \in {"ambient", "note"}

\* C21: for every AMBIENT and MELODY voice the proximity is 1 at distance 0,
\* 0 at every distance >= radius, lies in [0, 1], and of two voices of one
\* kind and radius the farther one never has the greater proximity.
ProximityMapping ==
    \A i \in DOMAIN oscillators :
        Sounding(i) =>
            LET v == oscillators[i]
            IN  /\ v.dist = 0 => v.distRatio = 1000
                /\ v.dist >= v.radius => v.distRatio = 0
                /\ v.distRatio >= 0 /\ v.distRatio <= 1000
                /\ \A j \in DOMAIN oscillators :
                      (/\ oscillators[j].kind = v.kind
                       /\ oscillators[j].radius = v.radius
                       /\ oscillators[j].dist >= v.dist) =>
                          oscillators[j].distRatio <= v.distRatio

\* C22: for every AMBIENT and MELODY voice the activity score is 0 for an
\* edit count of 0 or none, lies in [0, 1], is 1 for every edit count of
\* 9999 or more, and of two voices the one with the greater edit count
\* never has the smaller score.
ActivityMapping ==
    \A i \in DOMAIN oscillators :
        Sounding(i) =>
            LET v == oscillators[i]
            IN  /\ (~v.hasEditCount \/ v.editCount = 0) => v.activityScore = 0
                /\ v.activityScore >= 0 /\ v.activityScore <= 1000
                /\ (v.hasEditCount /\ v.editCount >= 9999) =>
                      v.activityScore = 1000
                /\ \A j \in DOMAIN oscillators :
                      (/\ Sounding(j)
                       /\ v.hasEditCount
                       /\ oscillators[j].hasEditCount
                       /\ oscillators[j].editCount >= v.editCount) =>
                          oscillators[j].activityScore >= v.activityScore

ActivitySaturated ==
    \E i, j, k \in DOMAIN oscillators :
        /\ oscillators[i].kind = "ambient"
        /\ oscillators[i].editCount = 100000
        /\ oscillators[i].activityScore = 1000
        /\ oscillators[j].editCount = 9998
        /\ oscillators[j].activityScore = 999
        /\ ~oscillators[k].hasEditCount
        /\ oscillators[k].activityScore = 0

\* C30: a note's scale step is its entity's id mod 8: two notes of entities
\* with the same id have the same step, in one registry and from one
\* generation to the next, whatever their position in the list, distance,
\* activity, radius, heading and epoch.
PitchByIdentity ==
    /\ [](\A i \in DOMAIN oscillators :
            oscillators[i].kind = "note" =>
                /\ oscillators[i].step = oscillators[i].pageid % 8
                /\ \A j \in DOMAIN oscillators :
                      (/\ oscillators[j].kind = "note"
                       /\ oscillators[j].pageid = oscillators[i].pageid) =>
                          oscillators[j].step = oscillators[i].step)
    /\ [][\A i \in DOMAIN oscillators, j \in DOMAIN oscillators' :
            (/\ oscillators[i].kind = "note"
             /\ oscillators'[j].kind = "note"
             /\ oscillators'[j].pageid = oscillators[i].pageid) =>
                oscillators'[j].step = oscillators[i].step]_vars

SameIdentityTwice ==
    \E i, j \in DOMAIN oscillators :
        /\ oscillators[i].kind = "note"
        /\ oscillators[j].kind = "note"
        /\ oscillators[i].pageid = oscillators[j].pageid
        /\ oscillators[i].editCount # oscillators[j].editCount
        /\ oscillators[i].dist # oscillators[j].dist
        /\ oscillators[i].step = oscillators[j].step

NarrationTimers == {c \in timers : c.kind = "interval"}

\* C31: a completed CACOPHONY update with n >= 1 entities on an initialised
\* engine has spoken one narration and left exactly one interval timer
\* armed, the one the engine holds, whose period is 4500 - 120 * n ms where
\* that is above 1200 ms and 1200 ms otherwise; of two narration timers the
\* one made for more entities never has the longer period, and no period
\* is below 1200 ms.
NarrationArmed ==
    /\ (/\ lastOp.op = "updateDone"
        /\ live.mode = "CACOPHONY"
        /\ live.ready
        /\ Len(live.articles) >= 1) =>
            /\ speech = 1
            /\ Cardinality(NarrationTimers) = 1
            /\ chatterInterval = NarrationTimers
            /\ \A c \in NarrationTimers :
                  /\ c.activeId = activeUpdateId
                  /\ c.period = IF 4500 - 120 * Len(live.articles) > 1200
                                THEN 4500 - 120 * Len(live.articles)
                                ELSE 1200
    /\ \A c \in timers \cup cancelled :
          c.kind = "interval" =>
              /\ c.period >= 1200
              /\ \A d \in timers \cup cancelled :
                    (d.kind = "interval" /\ Len(d.articles) >= Len(c.articles)) =>
                        d.period <= c.period

\* C32: when the audio effect has run with audio enabled and an empty
\* article list, and the generation built before it was for a non-empty
\* list, no voice is in the registry and no timer is armed.
EmptyListSilencesApp ==
    (/\ lastOp.op = "audioEffect"
     /\ lastOp.kind = "idle"
     /\ Len(lastOp.prev.articles) > 0) =>
        /\ oscillators = << >>
        /\ timers = {}
        /\ melodyTimeout = {}
        /\ chatterInterval = {}

====
